---------------------------- MODULE Spec2Model ----------------------------
(***************************************************************************)
(* A model of the barrel generator of src/tool/auto-barrel-shotgun.ts:     *)
(* the cascading Ignore Context (Context.ignored), the identifier deriver  *)
(* (Namespace) and the tree walker (Context.barrel), run against a         *)
(* filesystem drawn from a bounded family of directory trees.              *)
(* CompareSortedSets of src/app/util/math.ts is modelled on its own.       *)
(*                                                                         *)
(* JavaScript strings are TLA+ strings; str[i] is SubSeq(str, i+1, i+1)    *)
(* and indices are 1-based here, so "not found" is 0 where the code has -1.*)
(***************************************************************************)
EXTENDS Integers, Sequences, FiniteSets, TLC

VARIABLES
    fs,        \* the directory tree: directory path -> [rules, list]
    files,     \* the aggregator files on disk: directory path -> content
    stack,     \* the pending barrel() calls, root first; each holds its Context
    status,    \* "init" | "running" | "done" | "failed" | "call" | "ret"
    run,       \* which run of the tool this is
    wrote,     \* history: directory path -> includes written in this run
    returned,  \* history: directory path -> what its barrel() returned
    prev,      \* history: the aggregators the previous run wrote
    log,       \* history: the operations of this run, in order
    call,      \* the pending call of a function checked on its own
    ret        \* its result

vars == <<fs, files, stack, status, run, wrote, returned, prev, log, call, ret>>

----------------------------------------------------------------------------
(* Bounds of the model *)

\* entries (files, directories, links) in the whole tree, the root excluded
MaxNodes == 3
\* runs of the tool over the same tree
MaxRuns == 2
\* length of the file names Namespace is applied to on its own
MaxLen == 4
\* depth of the context chains ignored() is applied to on its own
MaxChain == 3
\* entries of a generated tree whose run is followed to its end
MaxLiveNodes == 2
\* the sorted sets CompareSortedSets is applied to hold elements of 1..MaxElem
MaxElem == 3

----------------------------------------------------------------------------
(* Strings *)

Range(s) == {s[i] : i \in DOMAIN s}

CharAt(str, i) == SubSeq(str, i, i)

\* String.prototype.startsWith
startsWith(str, prefix) ==
    /\ Len(prefix) <= Len(str)
    /\ SubSeq(str, 1, Len(prefix)) = prefix

\* String.prototype.lastIndexOf for a one-character needle; 0 when absent
lastIndexOf(str, c) ==
    LET hits == {i \in 1..Len(str) : CharAt(str, i) = c}
    IN  IF hits = {} THEN 0 ELSE CHOOSE i \in hits : \A j \in hits : j <= i

\* The printable ASCII characters, code 32 to 95 and 97 to 126
AsciiLow == " !\"#$%&'()*+,-./0123456789:;<=>?@ABCDEFGHIJKLMNOPQRSTUVWXYZ[\\]^_"
AsciiHigh == "abcdefghijklmnopqrstuvwxyz{|}~"

\* the code of each of them
CharCodes ==
    [c \in {CharAt(AsciiLow, i) : i \in 1..Len(AsciiLow)}
            \cup {CharAt(AsciiHigh, i) : i \in 1..Len(AsciiHigh)} |->
        IF \E i \in 1..Len(AsciiLow) : CharAt(AsciiLow, i) = c
        THEN 31 + (CHOOSE i \in 1..Len(AsciiLow) : CharAt(AsciiLow, i) = c)
        ELSE 96 + (CHOOSE i \in 1..Len(AsciiHigh) : CharAt(AsciiHigh, i) = c)]

\* String.prototype.charCodeAt(0) of a one-character string; 233 is the
\* code of the one character outside ASCII the model uses, U+00E9
charCodeAt(c) == IF c \in DOMAIN CharCodes THEN CharCodes[c] ELSE 233

fromCharCode(n) ==
    IF n <= 95 THEN CharAt(AsciiLow, n - 31) ELSE CharAt(AsciiHigh, n - 96)

\* String.prototype.toUpperCase / toLowerCase of a one-character string
toUpperCase(c) ==
    LET n == charCodeAt(c)
    IN  IF 97 <= n /\ n <= 122 THEN fromCharCode(n - 32)
        ELSE IF n = 233 THEN "É" ELSE c

toLowerCase(c) ==
    LET n == charCodeAt(c)
    IN  IF 65 <= n /\ n <= 90 THEN fromCharCode(n + 32) ELSE c

----------------------------------------------------------------------------
(* Identifier deriver *)

IsLetterNumber(str) ==
    LET char == charCodeAt(CharAt(str, 1))
    IN  \/ charCodeAt("a") <= char /\ char <= charCodeAt("z")
        \/ charCodeAt("A") <= char /\ char <= charCodeAt("Z")
        \/ charCodeAt("0") <= char /\ char <= charCodeAt("9")

\* a bug the loop could have: the else branch appends str[i] as it is
RECURSIVE NamespaceLoopNoLower(_, _, _, _)
NamespaceLoopNoLower(str, i, capital, out) ==
    IF i > Len(str) THEN out
    ELSE IF ~IsLetterNumber(CharAt(str, i))
         THEN NamespaceLoopNoLower(str, i + 1, TRUE, out)
         ELSE IF capital
              THEN NamespaceLoopNoLower(str, i + 1, FALSE, out \o toUpperCase(CharAt(str, i)))
              ELSE NamespaceLoopNoLower(str, i + 1, FALSE, out \o CharAt(str, i))

\* the loop of Namespace from index i on, with the flag and the output so far
RECURSIVE NamespaceLoop(_, _, _, _)
NamespaceLoop(str, i, capital, out) ==
    IF i > Len(str) THEN out
    ELSE IF ~IsLetterNumber(CharAt(str, i))
         THEN NamespaceLoop(str, i + 1, TRUE, out)
         ELSE IF capital
              THEN NamespaceLoop(str, i + 1, FALSE, out \o toUpperCase(CharAt(str, i)))
              ELSE NamespaceLoop(str, i + 1, FALSE, out \o toLowerCase(CharAt(str, i)))

Namespace(str0) ==
    LET i   == lastIndexOf(str0, ".")
        str == IF i # 0 THEN SubSeq(str0, 1, i - 1) ELSE str0
    IN  IF Len(str) < 1 THEN "" ELSE NamespaceLoop(str, 1, TRUE, "")

----------------------------------------------------------------------------
(* Pattern Matcher: the `ignore` package, for literal patterns.            *)
(* A pattern is a name ("secret.ts": matches that name at any depth), a    *)
(* path with a "/" inside or in front ("qux/secret.ts", "/secret.ts":      *)
(* anchored at the rule file's directory), either one negated by "!".      *)
(* Glob characters and patterns ending in "/" are outside the model.       *)

indexOf(str, c) ==
    LET hits == {i \in 1..Len(str) : CharAt(str, i) = c}
    IN  IF hits = {} THEN 0 ELSE CHOOSE i \in hits : \A j \in hits : i <= j

\* ignore().add(text): one rule per line, empty lines and comments dropped
SplitLines(text) ==
    LET lineFrom[i \in 1..(Len(text) + 1)] ==
            IF i > Len(text) THEN <<>>
            ELSE LET nl   == CHOOSE j \in i..(Len(text) + 1) :
                                /\ (j > Len(text) \/ CharAt(text, j) = "\n")
                                /\ \A m \in i..(j - 1) : CharAt(text, m) # "\n"
                     line == SubSeq(text, i, nl - 1)
                 IN  (IF line = "" \/ startsWith(line, "#") THEN <<>> ELSE <<line>>)
                     \o (IF nl > Len(text) THEN <<>> ELSE lineFrom[nl + 1])
    IN  lineFrom[1]

IsNegative(pattern) == startsWith(pattern, "!")

PatternBody(pattern) ==
    IF IsNegative(pattern) THEN SubSeq(pattern, 2, Len(pattern)) ELSE pattern

StripSlash(path) ==
    IF Len(path) > 0 /\ CharAt(path, Len(path)) = "/"
    THEN SubSeq(path, 1, Len(path) - 1) ELSE path

\* the last component of a path
Basename(path) ==
    LET p == StripSlash(path)
    IN  SubSeq(p, lastIndexOf(p, "/") + 1, Len(p))

\* the directory a path lies in, with its "/"; "" at the top
Dirname(path) ==
    LET p == StripSlash(path)
    IN  SubSeq(p, 1, lastIndexOf(p, "/"))

\* whether the rule's regular expression matches this very path
PatternMatches(pattern, path) ==
    LET body == PatternBody(pattern)
    IN  IF indexOf(body, "/") = 0
        THEN Basename(path) = body
        ELSE StripSlash(path) = (IF startsWith(body, "/")
                                 THEN SubSeq(body, 2, Len(body)) ELSE body)

\* Ignore._testOne: the last rule that matches decides
RECURSIVE TestOne(_, _, _, _)
TestOne(lines, path, k, acc) ==
    IF k > Len(lines) THEN acc
    ELSE IF PatternMatches(lines[k], path)
         THEN TestOne(lines, path, k + 1,
                      [ignored |-> ~IsNegative(lines[k]),
                       unignored |-> IsNegative(lines[k])])
         ELSE TestOne(lines, path, k + 1, acc)

\* Ignore.test(path): a path inside an ignored directory is ignored, by the
\* rule that ignores the topmost such directory
Test(lines, path) ==
    LET none  == [ignored |-> FALSE, unignored |-> FALSE]
        above == {j \in 1..(Len(path) - 1) :
                     /\ CharAt(path, j) = "/"
                     /\ TestOne(lines, SubSeq(path, 1, j), 1, none).ignored}
    IN  IF above = {} THEN TestOne(lines, path, 1, none)
        ELSE TestOne(lines,
                     SubSeq(path, 1, CHOOSE j \in above : \A m \in above : j <= m),
                     1, none)

----------------------------------------------------------------------------
(* Ignore Context *)

NoRules == [set |-> FALSE, lines |-> <<>>]

\* new Context(folder, parent): the parent is the context of the frame below
Context(folder, parents) ==
    [folder   |-> folder,
     fullPath |-> IF parents # <<>>
                  THEN parents[Len(parents)].fullPath \o folder
                  ELSE folder,
     rules    |-> NoRules]

\* a bug ignored() could have: no exemption of the two structural names
RECURSIVE ignoredNoExempt(_, _, _)
ignoredNoExempt(ctxs, k, path) ==
    IF ctxs[k].rules.set /\ Test(ctxs[k].rules.lines, path).ignored THEN TRUE
    ELSE IF k = 1 THEN FALSE
    ELSE ignoredNoExempt(ctxs, k - 1, ctxs[k].folder \o path)

\* a bug ignored() could have: the parent is never asked
ignoredNoCascade(ctxs, k, path) ==
    IF path = ".git" THEN FALSE
    ELSE IF path = "node_modules" THEN FALSE
    ELSE ctxs[k].rules.set /\ Test(ctxs[k].rules.lines, path).ignored

\* a bug ignored() could have: the parent is asked about the bare path
RECURSIVE ignoredNoPrefix(_, _, _)
ignoredNoPrefix(ctxs, k, path) ==
    IF path = ".git" THEN FALSE
    ELSE IF path = "node_modules" THEN FALSE
    ELSE IF ctxs[k].rules.set /\ Test(ctxs[k].rules.lines, path).ignored THEN TRUE
    ELSE IF k = 1 THEN FALSE
    ELSE ignoredNoPrefix(ctxs, k - 1, path)

\* a bug ignored() could have: a context without rules of its own answers no
RECURSIVE ignoredNeedsRules(_, _, _)
ignoredNeedsRules(ctxs, k, path) ==
    IF path = ".git" THEN FALSE
    ELSE IF path = "node_modules" THEN FALSE
    ELSE IF ~ctxs[k].rules.set THEN FALSE
    ELSE IF Test(ctxs[k].rules.lines, path).ignored THEN TRUE
    ELSE IF k = 1 THEN FALSE
    ELSE ignoredNeedsRules(ctxs, k - 1, ctxs[k].folder \o path)

\* Context.ignored(path) of the k-th context of the chain ctxs
RECURSIVE ignored(_, _, _)
ignored(ctxs, k, path) ==
    IF path = ".git" THEN FALSE
    ELSE IF path = "node_modules" THEN FALSE
    ELSE IF ctxs[k].rules.set /\ Test(ctxs[k].rules.lines, path).ignored THEN TRUE
    ELSE IF k = 1 THEN FALSE
    ELSE ignored(ctxs, k - 1, ctxs[k].folder \o path)

----------------------------------------------------------------------------
(* The filesystem *)

Missing == [state |-> "missing", text |-> ""]
Unreadable == [state |-> "unreadable", text |-> ""]
RuleText(text) == [state |-> "ok", text |-> text]

File(name) == [name |-> name, kind |-> "file"]
Dir(name) == [name |-> name, kind |-> "dir"]
Other(name) == [name |-> name, kind |-> "other"]

\* what a directory of the generated trees may hold
Leaves == {File("a.ts"), File("secret.ts"), Other("lnk")}
DirNames == {"qux"}
RuleFiles == {Missing, Unreadable, RuleText("secret.ts\n")}

NoTree == [d \in {} |-> Missing]

\* the trees below directory path with exactly n entries, and the listings
\* of exactly n entries (sub-directories' entries counted) with fresh names
RECURSIVE Subtrees(_, _)
RECURSIVE Listings(_, _, _)
Subtrees(path, n) ==
    {(path :> [rules |-> r, list |-> l.list]) @@ l.sub :
        r \in RuleFiles, l \in Listings(path, n, {})}

Listings(path, n, used) ==
    IF n = 0 THEN {[list |-> <<>>, sub |-> NoTree]}
    ELSE UNION {{[list |-> <<e>> \o rest.list, sub |-> rest.sub] :
                    rest \in Listings(path, n - 1, used \cup {e.name})} :
                e \in {x \in Leaves : x.name \notin used}}
         \cup
         UNION {UNION {{[list |-> <<Dir(dn)>> \o rest.list,
                         sub  |-> t @@ rest.sub] :
                           t \in Subtrees(path \o dn \o "/", k),
                           rest \in Listings(path, n - 1 - k, used \cup {dn})} :
                       k \in 0..(n - 1)} :
                dn \in {x \in DirNames : x \notin used}}

\* the scenarios of the specification
ScenarioQux ==
    ("./" :> [rules |-> Missing,
              list |-> <<File("foo.ts"), File("bar-baz.ts"), Dir("qux")>>])
    @@ ("./qux/" :> [rules |-> Missing, list |-> <<File("a.ts")>>])

ScenarioSecret ==
    ("./" :> [rules |-> RuleText("secret.ts"),
              list |-> <<File("secret.ts"), File("public.ts")>>])

\* a rule that names a directory, and one that names a path below it
ScenarioRuleOnDir ==
    ("./" :> [rules |-> RuleText("qux\n"), list |-> <<Dir("qux"), File("a.ts")>>])
    @@ ("./qux/" :> [rules |-> Missing, list |-> <<File("a.ts")>>])

ScenarioAnchored ==
    ("./" :> [rules |-> RuleText("# local\n\nqux/secret.ts\n"),
              list |-> <<File("secret.ts"), Dir("qux")>>])
    @@ ("./qux/" :> [rules |-> RuleText(""),
                     list |-> <<File("secret.ts"), File("a.ts")>>])

\* files, a sub-directory, a link and the dependency cache, interleaved
ScenarioMixed ==
    ("./" :> [rules |-> Unreadable,
              list |-> <<File("a.ts"), Dir("qux"), Other("lnk"),
                         Dir("node_modules"), File("secret.ts")>>])
    @@ ("./qux/" :> [rules |-> RuleText("secret.ts\n"),
                     list |-> <<File("secret.ts"), File("a.ts")>>])

\* the version-control directory, the dependency cache and a hidden file,
\* each with sources of its own
ScenarioHidden ==
    ("./" :> [rules |-> RuleText("secret.ts\n"),
              list |-> <<Dir(".git"), File(".env.ts"), Dir("node_modules"),
                         File("a.ts")>>])
    @@ ("./.git/" :> [rules |-> Missing, list |-> <<File("a.ts")>>])
    @@ ("./node_modules/" :> [rules |-> Missing, list |-> <<File("a.ts")>>])

Trees ==
    UNION {Subtrees("./", n) : n \in 0..MaxNodes}
    \cup {ScenarioQux, ScenarioSecret, ScenarioRuleOnDir, ScenarioAnchored,
          ScenarioMixed, ScenarioHidden}

\* fs.readFile(path, 'utf8') of a rule file
readFile(path) ==
    LET d == SubSeq(path, 1, Len(path) - Len(".barrelignore"))
    IN  IF fs[d].rules.state = "ok"
        THEN [ok |-> TRUE, data |-> fs[d].rules.text]
        ELSE [ok |-> FALSE, data |-> ""]

\* fs.readdir(path): the rule file when there is one, the entries in the
\* directory's order, the aggregator when there is one
readdir(path) ==
    (IF fs[path].rules.state # "missing" THEN <<".barrelignore">> ELSE <<>>)
    \o [k \in 1..Len(fs[path].list) |-> fs[path].list[k].name]
    \o (IF path \in DOMAIN files THEN <<"mod.ts">> ELSE <<>>)

\* fs.lstat(dir + name): what kind of entry it is
lstat(dir, name) ==
    IF \E k \in 1..Len(fs[dir].list) : fs[dir].list[k].name = name
    THEN (CHOOSE e \in Range(fs[dir].list) : e.name = name).kind
    ELSE "file"

WeakRead(path) ==
    LET r == readFile(path)
    IN  IF r.ok THEN [null |-> FALSE, text |-> r.data]
        ELSE [null |-> TRUE, text |-> ""]

----------------------------------------------------------------------------
(* Tree Walker: one frame per pending barrel() call.  A frame holds the    *)
(* fields of its Context, the await it is suspended at (pc), the listing   *)
(* it iterates over (names, i), and its includes.                          *)

Frame(ctx) ==
    [folder   |-> ctx.folder,
     fullPath |-> ctx.fullPath,
     rules    |-> ctx.rules,
     pc       |-> IF ~ctx.rules.set THEN "readFile" ELSE "readdir",
     names    |-> <<>>,
     i        |-> 1,
     includes |-> <<>>,
     result   |-> FALSE]

Top == stack[Len(stack)]

Event(op, path, ok) == [op |-> op, path |-> path, ok |-> ok]

\* a bug the loop could have: the aggregator is taken for an input
SkippedButModTs(path) ==
    \/ startsWith(path, ".")
    \/ path = "node_modules"

\* a bug the loop could have: hidden entries are taken for inputs
SkippedButHidden(path) ==
    \/ path = "node_modules"
    \/ path = "mod.ts"

\* the names the loop passes over without a look
Skipped(path) ==
    \/ startsWith(path, ".")
    \/ path = "node_modules"
    \/ path = "mod.ts"

\* the index of the first entry from i on that is not passed over
RECURSIVE NextEntry(_, _)
NextEntry(names, i) ==
    IF i > Len(names) THEN i
    ELSE IF Skipped(names[i]) THEN NextEntry(names, i + 1)
    ELSE i

\* a bug the rendering could have: the lines are joined, not terminated
RECURSIVE SourceJoined(_)
SourceJoined(includes) ==
    IF includes = <<>> THEN ""
    ELSE "export * as " \o includes[1].namespace \o " from './"
         \o includes[1].path \o "';"
         \o (IF Len(includes) > 1 THEN "\n" ELSE "")
         \o SourceJoined(Tail(includes))

\* the text of the aggregator
RECURSIVE Source(_)
Source(includes) ==
    IF includes = <<>> THEN ""
    ELSE "export * as " \o includes[1].namespace \o " from './"
         \o includes[1].path \o "';\n"
         \o Source(Tail(includes))

\* a bug the end of barrel() could have: the aggregator is always written
FinishAlwaysWrites(f) == [f EXCEPT !.pc = "writeFile"]

\* after the loop: return false, or go and write the aggregator
Finish(f) ==
    IF Len(f.includes) < 1
    THEN [f EXCEPT !.pc = "return", !.result = FALSE]
    ELSE [f EXCEPT !.pc = "writeFile"]

\* the loop from entry i on, up to the next await
Loop(f) ==
    LET j == NextEntry(f.names, f.i)
    IN  IF j <= Len(f.names)
        THEN [f EXCEPT !.i = j, !.pc = "lstat"]
        ELSE Finish([f EXCEPT !.i = j])

\* a bug the loop body could have: the rules are asked before the kind
ClassifyRulesFirst(stats, ctxs, path) ==
    IF ignored(ctxs, Len(ctxs), path) THEN [act |-> "skip", asked |-> TRUE]
    ELSE IF stats = "dir" THEN [act |-> "descend", asked |-> TRUE]
    ELSE IF stats # "file" THEN [act |-> "skip", asked |-> TRUE]
    ELSE [act |-> "include", asked |-> TRUE]

\* a bug the loop body could have: whatever is not a directory counts as a
\* file
ClassifyOtherAsFile(stats, ctxs, path) ==
    IF stats = "dir" THEN [act |-> "descend", asked |-> FALSE]
    ELSE IF ignored(ctxs, Len(ctxs), path) THEN [act |-> "skip", asked |-> TRUE]
    ELSE [act |-> "include", asked |-> TRUE]

\* the loop body after lstat: what becomes of the entry, and whether
\* ignored() was called for it
Classify(stats, ctxs, path) ==
    IF stats = "dir" THEN [act |-> "descend", asked |-> FALSE]
    ELSE IF stats # "file" THEN [act |-> "skip", asked |-> FALSE]
    ELSE IF ignored(ctxs, Len(ctxs), path) THEN [act |-> "skip", asked |-> TRUE]
    ELSE [act |-> "include", asked |-> TRUE]

\* a bug barrel() could have: a failure below a directory is swallowed and
\* the directory counts as empty
ThrowCaughtByParent(stk) ==
    IF Len(stk) > 1
    THEN LET rest == SubSeq(stk, 1, Len(stk) - 1)
             p    == rest[Len(rest)]
         IN  [rest EXCEPT ![Len(rest)] = Loop([p EXCEPT !.i = p.i + 1])]
    ELSE <<>>

\* the frames left when a rejected await has propagated: no frame catches
Throw(stk) == <<>>

NoFiles == [d \in {} |-> ""]
NoWrites == [d \in {} |-> <<>>]
NoReturns == [d \in {} |-> FALSE]
NoCall == [fn |-> "none"]

Init ==
    /\ fs \in Trees
    /\ files = NoFiles
    /\ stack = <<>>
    /\ status = "init"
    /\ run = 1
    /\ wrote = NoWrites
    /\ returned = NoReturns
    /\ prev = NoFiles
    /\ log = <<>>
    /\ call = NoCall
    /\ ret = NoCall

\* const ctx = new Context('./'); await ctx.barrel()
Start ==
    /\ status = "init"
    /\ stack' = <<Frame(Context("./", <<>>))>>
    /\ status' = "running"
    /\ log' = Append(log, Event("barrel", "./", TRUE))
    /\ UNCHANGED <<fs, files, run, wrote, returned, prev, call, ret>>

\* a bug the class could have: the rule set is one field shared by all
\* contexts, and a load replaces it for every pending barrel()
ReadFileShared ==
    /\ status = "running"
    /\ Top.pc = "readFile"
    /\ LET f      == Top
           rules  == WeakRead(f.fullPath \o ".barrelignore")
           loaded == IF ~rules.null /\ rules.text # ""
                     THEN [set |-> TRUE, lines |-> SplitLines(rules.text)]
                     ELSE f.rules
       IN  /\ stack' = [k \in 1..Len(stack) |->
                            IF k = Len(stack)
                            THEN [f EXCEPT !.rules = loaded, !.pc = "readdir"]
                            ELSE [stack[k] EXCEPT !.rules = loaded]]
           /\ log' = Append(log, Event("readFile",
                                       f.fullPath \o ".barrelignore",
                                       ~rules.null))
    /\ UNCHANGED <<fs, files, status, run, wrote, returned, prev, call, ret>>

\* the rule file has been read (or not): set the rules, list the directory
ReadFile ==
    /\ status = "running"
    /\ Top.pc = "readFile"
    /\ LET f      == Top
           rules  == WeakRead(f.fullPath \o ".barrelignore")
           loaded == IF ~rules.null /\ rules.text # ""
                     THEN [set |-> TRUE, lines |-> SplitLines(rules.text)]
                     ELSE f.rules
       IN  /\ stack' = [stack EXCEPT ![Len(stack)] =
                            [f EXCEPT !.rules = loaded, !.pc = "readdir"]]
           /\ log' = Append(log, Event("readFile",
                                       f.fullPath \o ".barrelignore",
                                       ~rules.null))
    /\ UNCHANGED <<fs, files, status, run, wrote, returned, prev, call, ret>>

\* a rejected await of the top frame
Raise(op, path) ==
    /\ stack' = Throw(stack)
    /\ status' = IF Throw(stack) = <<>> THEN "failed" ELSE status
    /\ log' = Append(log, Event(op, path, FALSE))

\* the listing has arrived: run the loop up to its first await
Readdir ==
    /\ status = "running"
    /\ Top.pc = "readdir"
    /\ stack' = [stack EXCEPT ![Len(stack)] =
                    Loop([Top EXCEPT !.names = readdir(Top.fullPath), !.i = 1])]
    /\ log' = Append(log, Event("readdir", Top.fullPath, TRUE))
    /\ UNCHANGED <<fs, files, status, run, wrote, returned, prev, call, ret>>

ReaddirFail ==
    /\ status = "running"
    /\ Top.pc = "readdir"
    /\ Raise("readdir", Top.fullPath)
    /\ UNCHANGED <<fs, files, run, wrote, returned, prev, call, ret>>

\* a bug barrel() could have: the call on a sub-directory is not awaited
\* and the loop goes on to the next entry
LstatNotAwaited ==
    /\ status = "running"
    /\ Top.pc = "lstat"
    /\ LET f     == Top
           path  == f.names[f.i]
           stats == lstat(f.fullPath, path)
           c     == Classify(stats, stack, path)
           seen  == <<Event("lstat", f.fullPath \o path, TRUE)>>
                    \o (IF c.asked
                        THEN <<Event("ignored", f.fullPath \o path, TRUE)>>
                        ELSE <<>>)
       IN  CASE c.act = "descend" ->
                  /\ stack' = [stack EXCEPT ![Len(stack)] =
                                  Loop([f EXCEPT !.i = f.i + 1])]
                              \o <<Frame(Context(path \o "/", stack))>>
                  /\ log' = log \o seen
                            \o <<Event("barrel", f.fullPath \o path \o "/", TRUE)>>
             [] c.act = "include" ->
                  /\ stack' = [stack EXCEPT ![Len(stack)] =
                        Loop([f EXCEPT
                                !.includes = Append(@, [namespace |-> Namespace(path),
                                                        path |-> path]),
                                !.i = f.i + 1])]
                  /\ log' = log \o seen
             [] OTHER ->
                  /\ stack' = [stack EXCEPT ![Len(stack)] =
                                  Loop([f EXCEPT !.i = f.i + 1])]
                  /\ log' = log \o seen
    /\ UNCHANGED <<fs, files, status, run, wrote, returned, prev, call, ret>>

\* the stats have arrived: descend, include or skip, and go on
Lstat ==
    /\ status = "running"
    /\ Top.pc = "lstat"
    /\ LET f     == Top
           path  == f.names[f.i]
           stats == lstat(f.fullPath, path)
           c     == Classify(stats, stack, path)
           seen  == <<Event("lstat", f.fullPath \o path, TRUE)>>
                    \o (IF c.asked
                        THEN <<Event("ignored", f.fullPath \o path, TRUE)>>
                        ELSE <<>>)
       IN  CASE c.act = "descend" ->
                  /\ stack' = [stack EXCEPT ![Len(stack)].pc = "barrel"]
                              \o <<Frame(Context(path \o "/", stack))>>
                  /\ log' = log \o seen
                            \o <<Event("barrel", f.fullPath \o path \o "/", TRUE)>>
             [] c.act = "include" ->
                  /\ stack' = [stack EXCEPT ![Len(stack)] =
                        Loop([f EXCEPT
                                !.includes = Append(@, [namespace |-> Namespace(path),
                                                        path |-> path]),
                                !.i = f.i + 1])]
                  /\ log' = log \o seen
             [] OTHER ->
                  /\ stack' = [stack EXCEPT ![Len(stack)] =
                                  Loop([f EXCEPT !.i = f.i + 1])]
                  /\ log' = log \o seen
    /\ UNCHANGED <<fs, files, status, run, wrote, returned, prev, call, ret>>

LstatFail ==
    /\ status = "running"
    /\ Top.pc = "lstat"
    /\ Raise("lstat", Top.fullPath \o Top.names[Top.i])
    /\ UNCHANGED <<fs, files, run, wrote, returned, prev, call, ret>>

\* the aggregator has been written: return true
WriteFile ==
    /\ status = "running"
    /\ Top.pc = "writeFile"
    /\ files' = (Top.fullPath :> Source(Top.includes)) @@ files
    /\ wrote' = (Top.fullPath :> Top.includes) @@ wrote
    /\ stack' = [stack EXCEPT ![Len(stack)].pc = "return",
                              ![Len(stack)].result = TRUE]
    /\ log' = Append(log, Event("writeFile", Top.fullPath \o "mod.ts", TRUE))
    /\ UNCHANGED <<fs, status, run, returned, prev, call, ret>>

\* the write failed: the file is as it was, or was left empty
WriteFileFail ==
    /\ status = "running"
    /\ Top.pc = "writeFile"
    /\ files' \in {files, (Top.fullPath :> "") @@ files}
    /\ Raise("writeFile", Top.fullPath \o "mod.ts")
    /\ UNCHANGED <<fs, run, wrote, returned, prev, call, ret>>

\* a bug the loop could have: the sub-directory is included whatever its
\* barrel() returned
ReturnAlwaysIncluded ==
    /\ status = "running"
    /\ Top.pc = "return"
    /\ LET f    == Top
           rest == SubSeq(stack, 1, Len(stack) - 1)
       IN  /\ returned' = (f.fullPath :> f.result) @@ returned
           /\ log' = Append(log, Event("return", f.fullPath, TRUE))
           /\ IF rest = <<>>
              THEN /\ stack' = <<>>
                   /\ status' = "done"
              ELSE LET p     == rest[Len(rest)]
                       path  == p.names[p.i]
                       entry == [namespace |-> Namespace(path),
                                 path |-> path \o "/mod.ts"]
                   IN  /\ stack' = [rest EXCEPT ![Len(rest)] =
                             Loop([p EXCEPT
                                     !.includes = Append(@, entry),
                                     !.i = p.i + 1])]
                       /\ status' = status
    /\ UNCHANGED <<fs, files, run, wrote, prev, call, ret>>

\* barrel() returns: to the top level, or into the loop of the parent
Return ==
    /\ status = "running"
    /\ Top.pc = "return"
    /\ LET f    == Top
           rest == SubSeq(stack, 1, Len(stack) - 1)
       IN  /\ returned' = (f.fullPath :> f.result) @@ returned
           /\ log' = Append(log, Event("return", f.fullPath, TRUE))
           /\ IF rest = <<>>
              THEN /\ stack' = <<>>
                   /\ status' = "done"
              ELSE LET p     == rest[Len(rest)]
                       path  == p.names[p.i]
                       entry == [namespace |-> Namespace(path),
                                 path |-> path \o "/mod.ts"]
                   IN  /\ stack' = [rest EXCEPT ![Len(rest)] =
                             Loop([p EXCEPT
                                     !.includes = IF f.result
                                                  THEN Append(@, entry) ELSE @,
                                     !.i = p.i + 1])]
                       /\ status' = status
    /\ UNCHANGED <<fs, files, run, wrote, prev, call, ret>>

\* the tool is run again on the tree the last run left
Rerun ==
    /\ status = "done"
    /\ run < MaxRuns
    /\ run' = run + 1
    /\ status' = "init"
    /\ prev' = [d \in DOMAIN wrote |-> files[d]]
    /\ wrote' = NoWrites
    /\ returned' = NoReturns
    /\ log' = <<>>
    /\ UNCHANGED <<fs, files, stack, call, ret>>

Next ==
    \/ Start
    \/ ReadFile
    \/ Readdir
    \/ ReaddirFail
    \/ Lstat
    \/ LstatFail
    \/ WriteFile
    \/ WriteFileFail
    \/ Return
    \/ Rerun

Spec == Init /\ [][Next]_vars

\* one step of a run of the tool: some await of the walk settles
Step ==
    \/ Start
    \/ ReadFile
    \/ Readdir
    \/ ReaddirFail
    \/ Lstat
    \/ LstatFail
    \/ WriteFile
    \/ WriteFileFail
    \/ Return

\* the trees of the runs that are followed to their end
LiveTrees ==
    UNION {Subtrees("./", n) : n \in 0..MaxLiveNodes}
    \cup {ScenarioQux, ScenarioSecret, ScenarioRuleOnDir, ScenarioAnchored,
          ScenarioMixed, ScenarioHidden}

InitLive ==
    /\ fs \in LiveTrees
    /\ files = NoFiles
    /\ stack = <<>>
    /\ status = "init"
    /\ run = 1
    /\ wrote = NoWrites
    /\ returned = NoReturns
    /\ prev = NoFiles
    /\ log = <<>>
    /\ call = NoCall
    /\ ret = NoCall

\* one run of the tool, in which every pending filesystem operation settles
\* in the end, one way or the other
SpecLive == InitLive /\ [][Step]_vars /\ WF_vars(Step)

----------------------------------------------------------------------------
(* Namespace and ignored() applied on their own to bounded inputs *)

Alphabet == {"a", "B", "7", "-", ".", "é"}

RECURSIVE Strings(_)
Strings(n) ==
    IF n = 0 THEN {""}
    ELSE LET shorter == Strings(n - 1)
         IN  shorter \cup {s \o c : s \in shorter, c \in Alphabet}

Examples == {"my-file.ts", ".ts", "a.b.ts", "XMLHttpRequest.ts"}

InitNamespace ==
    /\ fs = NoTree
    /\ files = NoFiles
    /\ stack = <<>>
    /\ status = "call"
    /\ run = 1
    /\ wrote = NoWrites
    /\ returned = NoReturns
    /\ prev = NoFiles
    /\ log = <<>>
    /\ call \in {[fn |-> "Namespace", str |-> s] : s \in Strings(MaxLen) \cup Examples}
    /\ ret = NoCall

CallNamespace ==
    /\ status = "call"
    /\ call.fn = "Namespace"
    /\ ret' = [fn |-> "Namespace", value |-> Namespace(call.str)]
    /\ status' = "ret"
    /\ UNCHANGED <<fs, files, stack, run, wrote, returned, prev, log, call>>

NextNamespace == CallNamespace

SpecNamespace == InitNamespace /\ [][NextNamespace]_vars

\* the rule files the contexts of a chain may have loaded
ChainRuleTexts ==
    {"", "secret.ts\n", "qux/secret.ts\n", ".git\nnode_modules\n",
     "a.ts\n!a.ts\nin\n"}

ChainFolders == {"qux/", "in/"}

\* what ReadFile leaves in the context for a rule file of this text
Loaded(text) ==
    IF text # "" THEN [set |-> TRUE, lines |-> SplitLines(text)] ELSE NoRules

\* the chains of n contexts, the root first
RECURSIVE Chains(_)
Chains(n) ==
    IF n = 1
    THEN {<<[Context("./", <<>>) EXCEPT !.rules = Loaded(t)]>> : t \in ChainRuleTexts}
    ELSE {Append(c, [Context(f, c) EXCEPT !.rules = Loaded(t)]) :
             c \in Chains(n - 1), f \in ChainFolders, t \in ChainRuleTexts}

ProbePaths == {".git", "node_modules", "secret.ts", "a.ts"}

InitIgnored ==
    /\ fs = NoTree
    /\ files = NoFiles
    /\ stack \in UNION {Chains(n) : n \in 1..MaxChain}
    /\ status = "call"
    /\ run = 1
    /\ wrote = NoWrites
    /\ returned = NoReturns
    /\ prev = NoFiles
    /\ log = <<>>
    /\ call \in {[fn |-> "ignored", path |-> q] : q \in ProbePaths}
    /\ ret = NoCall

CallIgnored ==
    /\ status = "call"
    /\ call.fn = "ignored"
    /\ ret' = [fn |-> "ignored", value |-> ignored(stack, Len(stack), call.path)]
    /\ status' = "ret"
    /\ UNCHANGED <<fs, files, stack, run, wrote, returned, prev, log, call>>

NextIgnored == CallIgnored

SpecIgnored == InitIgnored /\ [][NextIgnored]_vars

----------------------------------------------------------------------------
(* Sorted sets of src/app/util/math.ts.  A JavaScript value that is a      *)
(* number or null is a record here; arrays are sequences, indexed from 1.  *)

Null == [null |-> TRUE, num |-> 0]
Num(n) == [null |-> FALSE, num |-> n]

\* the loop of IsSortedSuperSet from the indices i and j on, and its result
RECURSIVE IsSortedSuperSetLoop(_, _, _, _)
IsSortedSuperSetLoop(sup, base, i, j) ==
    IF i <= Len(sup) /\ j <= Len(base)
    THEN IF sup[i] = base[j]
         THEN IsSortedSuperSetLoop(sup, base, i + 1, j + 1)
         ELSE IsSortedSuperSetLoop(sup, base, i + 1, j)
    ELSE j > Len(base)

IsSortedSuperSet(sup, base) == IsSortedSuperSetLoop(sup, base, 1, 1)

COMPARE_SETS_LOOKUP == <<Null, Num(1), Num(-1), Num(0)>>

\* Number(boolean)
Number(b) == IF b THEN 1 ELSE 0

\* x << k
ShiftLeft(x, k) == x * (2 ^ k)

\* x | y of two naturals
RECURSIVE BitOr(_, _)
BitOr(x, y) ==
    IF x = 0 THEN y
    ELSE IF y = 0 THEN x
    ELSE (IF x % 2 = 1 \/ y % 2 = 1 THEN 1 ELSE 0) + 2 * BitOr(x \div 2, y \div 2)

\* left || right: the right operand when the left one is falsy (null, 0)
OrElse(left, right) == IF left.null \/ left.num = 0 THEN right ELSE left

CompareSortedSets(a, b) ==
    LET A   == IsSortedSuperSet(a, b)
        B   == IsSortedSuperSet(b, a)
        idx == BitOr(Number(A), ShiftLeft(Number(B), 1))
    IN  OrElse(COMPARE_SETS_LOOKUP[idx + 1], Null)

\* the elements of a set in ascending and in descending order
RECURSIVE Ascending(_)
Ascending(S) ==
    IF S = {} THEN <<>>
    ELSE LET m == CHOOSE x \in S : \A y \in S : x <= y
         IN  <<m>> \o Ascending(S \ {m})

RECURSIVE Descending(_)
Descending(S) ==
    IF S = {} THEN <<>>
    ELSE LET m == CHOOSE x \in S : \A y \in S : x >= y
         IN  <<m>> \o Descending(S \ {m})

\* the pairs of arrays sorted in the same order and free of duplicates
SortedPairs ==
    {<<Ascending(S), Ascending(T)>> : S \in SUBSET (1..MaxElem), T \in SUBSET (1..MaxElem)}
    \cup {<<Descending(S), Descending(T)>> :
              S \in SUBSET (1..MaxElem), T \in SUBSET (1..MaxElem)}

InitCompare ==
    /\ fs = NoTree
    /\ files = NoFiles
    /\ stack = <<>>
    /\ status = "call"
    /\ run = 1
    /\ wrote = NoWrites
    /\ returned = NoReturns
    /\ prev = NoFiles
    /\ log = <<>>
    /\ call \in {[fn |-> "CompareSortedSets", a |-> q[1], b |-> q[2]] : q \in SortedPairs}
    /\ ret = NoCall

CallCompare ==
    /\ status = "call"
    /\ call.fn = "CompareSortedSets"
    /\ ret' = [fn |-> "CompareSortedSets", value |-> CompareSortedSets(call.a, call.b)]
    /\ status' = "ret"
    /\ UNCHANGED <<fs, files, stack, run, wrote, returned, prev, log, call>>

NextCompare == CallCompare

SpecCompare == InitCompare /\ [][NextCompare]_vars

----------------------------------------------------------------------------
(* What the specification expects, stated on the tree itself *)

Lowers == "abcdefghijklmnopqrstuvwxyz"
Uppers == "ABCDEFGHIJKLMNOPQRSTUVWXYZ"
Digits == "0123456789"

Chars(str) == {CharAt(str, i) : i \in 1..Len(str)}

LettersAndDigits == Chars(Lowers) \cup Chars(Uppers) \cup Chars(Digits)

IsAlnum(c) == c \in LettersAndDigits

UpperOf == [c \in Chars(Lowers) |-> CharAt(Uppers, indexOf(Lowers, c))]

LowerOf == [c \in Chars(Uppers) |-> CharAt(Lowers, indexOf(Uppers, c))]

Upper(c) == IF c \in DOMAIN UpperOf THEN UpperOf[c] ELSE c

Lower(c) == IF c \in DOMAIN LowerOf THEN LowerOf[c] ELSE c

RECURSIVE Concat(_)
Concat(strs) == IF strs = <<>> THEN "" ELSE strs[1] \o Concat(Tail(strs))

\* the reference derivation of an identifier
RefNamespace(filename) ==
    LET dots == {i \in 1..Len(filename) : CharAt(filename, i) = "."}
        stem == IF dots = {} THEN filename
                ELSE SubSeq(filename, 1,
                            (CHOOSE i \in dots : \A j \in dots : j <= i) - 1)
        piece(i) ==
            LET c == CharAt(stem, i)
            IN  IF ~IsAlnum(c) THEN ""
                ELSE IF i = 1 \/ ~IsAlnum(CharAt(stem, i - 1)) THEN Upper(c)
                ELSE Lower(c)
    IN  IF stem = "" THEN "" ELSE Concat([i \in 1..Len(stem) |-> piece(i)])

\* C4: Namespace(filename) is the reference derivation of the identifier:
\* the stem before the last ".", its letters and digits only, each one
\* upper-cased when it starts the stem or follows a character that is
\* neither, lower-cased otherwise; with the four examples of the
\* specification.
C4_NamespaceIsReference ==
    (status = "ret" /\ ret.fn = "Namespace") =>
        /\ ret.value = RefNamespace(call.str)
        /\ call.str = "my-file.ts" => ret.value = "MyFile"
        /\ call.str = ".ts" => ret.value = ""
        /\ call.str = "a.b.ts" => ret.value = "AB"
        /\ call.str = "XMLHttpRequest.ts" => ret.value = "Xmlhttprequest"

C4_Witness ==
    /\ status = "ret"
    /\ ret.fn = "Namespace"
    /\ call.str = "XMLHttpRequest.ts"
    /\ ret.value = "Xmlhttprequest"


\* the folder names of the contexts above the j-th one, down to the last
RECURSIVE FoldersBelow(_, _)
FoldersBelow(ctxs, j) ==
    IF j >= Len(ctxs) THEN ""
    ELSE ctxs[j + 1].folder \o FoldersBelow(ctxs, j + 1)

\* whether the rule set loaded on a context matches a path
RulesMatch(ctx, path) == ctx.rules.set /\ Test(ctx.rules.lines, path).ignored

\* C3: in every context, whatever rule sets it and its ancestors have
\* loaded, ignored('.git') and ignored('node_modules') are false.
C3_StructuralNamesNeverIgnored ==
    (status = "ret" /\ ret.fn = "ignored"
        /\ call.path \in {".git", "node_modules"}) => ret.value = FALSE

C3_Witness ==
    /\ status = "ret"
    /\ ret.fn = "ignored"
    /\ call.path = "node_modules"
    /\ Len(stack) > 1
    /\ RulesMatch(stack[Len(stack)], "node_modules")
    /\ RulesMatch(stack[1], "node_modules")
    /\ ret.value = FALSE

\* C7: for a path other than '.git' and 'node_modules', a match of the
\* context's own rules gives true whatever the ancestors hold, and
\* ignored(path) is true exactly when the rules of the context or of an
\* ancestor match the path prefixed by the folder names of the contexts
\* between that ancestor and the context (false without any parent and
\* without a match of its own).
C7_ResolutionOrder ==
    (status = "ret" /\ ret.fn = "ignored"
        /\ call.path \notin {".git", "node_modules"}) =>
        /\ RulesMatch(stack[Len(stack)], call.path) => ret.value = TRUE
        /\ ret.value =
              (\E j \in 1..Len(stack) :
                  RulesMatch(stack[j], FoldersBelow(stack, j) \o call.path))
        /\ (Len(stack) = 1 /\ ~RulesMatch(stack[1], call.path))
              => ret.value = FALSE

\* the root's anchored rule decides, two contexts below it
C7_Witness ==
    /\ status = "ret"
    /\ ret.fn = "ignored"
    /\ call.path = "secret.ts"
    /\ Len(stack) = 2
    /\ ~RulesMatch(stack[2], "secret.ts")
    /\ ~RulesMatch(stack[1], "secret.ts")
    /\ RulesMatch(stack[1], "qux/secret.ts")
    /\ stack[2].folder = "qux/"
    /\ ret.value = TRUE


----------------------------------------------------------------------------
(* The walk, stated on the tree *)

\* a name the walker may take for an entry at all
IsCandidate(name) ==
    /\ CharAt(name, 1) # "."
    /\ name \notin {"node_modules", "mod.ts"}

\* the directories of a tree at or above directory d
AtOrAbove(tree, d) == {a \in DOMAIN tree : startsWith(d, a)}

\* the path of directory d as seen from its ancestor a
Below(a, d) == SubSeq(d, Len(a) + 1, Len(d))

\* the patterns of a directory's rule file; none when it cannot be read
Patterns(tree, d) ==
    IF tree[d].rules.state = "ok" THEN SplitLines(tree[d].rules.text) ELSE <<>>

\* a file is excluded when the rules of its directory or of a directory
\* above match its path from there
Excluded(tree, d, name) ==
    \E a \in AtOrAbove(tree, d) :
        Test(Patterns(tree, a), Below(a, d) \o name).ignored

\* the entries the aggregator of directory d is to hold, in listing order
RECURSIVE Expected(_, _)
Expected(tree, d) ==
    LET entry(e) ==
            IF ~IsCandidate(e.name) THEN <<>>
            ELSE IF e.kind = "dir"
                 THEN IF Expected(tree, d \o e.name \o "/") # <<>>
                      THEN <<[namespace |-> RefNamespace(e.name),
                              path |-> e.name \o "/mod.ts"]>>
                      ELSE <<>>
            ELSE IF e.kind = "file" /\ ~Excluded(tree, d, e.name)
                 THEN <<[namespace |-> RefNamespace(e.name), path |-> e.name]>>
            ELSE <<>>
        RECURSIVE from(_)
        from(k) == IF k > Len(tree[d].list) THEN <<>>
                   ELSE entry(tree[d].list[k]) \o from(k + 1)
    IN  from(1)

\* the sub-directories of d the walker is to enter
SubDirs(tree, d) ==
    {d \o e.name \o "/" :
        e \in {x \in Range(tree[d].list) : x.kind = "dir" /\ IsCandidate(x.name)}}

\* whether the includes written for d name the aggregator of sub-directory sub
Refers(d, sub) ==
    \E k \in 1..Len(wrote[d]) : d \o wrote[d][k].path = sub \o "mod.ts"

\* C1: barrel() writes the aggregator and returns true exactly when it
\* collected an entry; the parent's aggregator names a sub-directory exactly
\* when that sub-directory's barrel() returned true; a directory without an
\* eligible entry at any depth writes nothing, and no aggregator names a
\* sub-directory aggregator that this walk did not write.
C1_WrittenIffCollected ==
    /\ \A k \in 1..Len(stack) :
          stack[k].pc = "return" =>
              /\ stack[k].result = (stack[k].includes # <<>>)
              /\ stack[k].result = (stack[k].fullPath \in DOMAIN wrote)
    /\ \A d \in DOMAIN returned :
          /\ returned[d] = (d \in DOMAIN wrote)
          /\ returned[d] = (Expected(fs, d) # <<>>)
    /\ \A d \in DOMAIN wrote :
          /\ wrote[d] # <<>>
          /\ \A sub \in SubDirs(fs, d) :
                /\ sub \in DOMAIN returned
                /\ Refers(d, sub) = returned[sub]
                /\ Refers(d, sub) => sub \in DOMAIN wrote

\* the root is written and leaves out a sub-directory whose files are all
\* excluded
C1_Witness ==
    /\ status = "done"
    /\ "./" \in DOMAIN wrote
    /\ \E sub \in SubDirs(fs, "./") :
          /\ \E e \in Range(fs[sub].list) : e.kind = "file"
          /\ returned[sub] = FALSE
          /\ sub \notin DOMAIN files
          /\ ~Refers("./", sub)


\* the directories at or above d whose rule file holds the line name
RuledBy(d, name) ==
    {a \in AtOrAbove(fs, d) :
        /\ fs[a].rules.state = "ok"
        /\ name \in Range(SplitLines(fs[a].rules.text))}

\* whether the includes written for d hold the file name
Exports(d, name) == \E k \in 1..Len(wrote[d]) : wrote[d][k].path = name

\* C2: a file whose name is a rule of its directory's own rule file, or of
\* the rule file of any directory above, is left out of its directory's
\* aggregator; with the scenario of the specification: the root rule
\* 'secret.ts' leaves one line, exporting Public.
C2_CascadingEquivalence ==
    /\ \A d \in DOMAIN wrote :
          \A e \in Range(fs[d].list) :
              (e.kind = "file" /\ RuledBy(d, e.name) # {}) => ~Exports(d, e.name)
    /\ (fs = ScenarioSecret /\ status = "done") =>
          files["./"] = "export * as Public from './public.ts';\n"

\* a directory below the root is written without its file that only the
\* root's rule file names
C2_Witness ==
    /\ status = "done"
    /\ \E d \in DOMAIN wrote :
          /\ d # "./"
          /\ \E e \in Range(fs[d].list) :
                /\ e.kind = "file"
                /\ RuledBy(d, e.name) = {"./"}
                /\ ~Exports(d, e.name)

\* C5: a second run over the tree the first run left writes the same
\* aggregators with the same contents, and takes no aggregator for an input.
C5_Idempotence ==
    (run > 1 /\ status = "done") =>
        /\ DOMAIN wrote = DOMAIN prev
        /\ \A d \in DOMAIN wrote :
              /\ files[d] = prev[d]
              /\ ~Exports(d, "mod.ts")
        /\ \A k \in 1..Len(log) : Basename(log[k].path) = "mod.ts" =>
              log[k].op = "writeFile"

C5_Witness ==
    /\ run > 1
    /\ status = "done"
    /\ Cardinality(DOMAIN wrote) > 1
    /\ \A d \in DOMAIN wrote : "mod.ts" \in Range(readdir(d))

\* the text of one re-export line
Line(identifier, relativePath) ==
    Concat(<<"export * as ", identifier, " from './", relativePath, "';", "\n">>)

\* C6: the content of a written aggregator is one line per collected entry,
\* in the order of the listing, files and sub-directories interleaved,
\* `export * as <Identifier> from './<relativePath>';` and a newline each;
\* with the scenario of the specification.
C6_ContentInListingOrder ==
    /\ \A d \in DOMAIN wrote :
          LET entries == Expected(fs, d)
          IN  /\ wrote[d] = entries
              /\ files[d] = Concat([k \in 1..Len(entries) |->
                                      Line(entries[k].namespace, entries[k].path)])
    /\ (fs = ScenarioQux /\ status = "done") =>
          /\ files["./qux/"] = "export * as A from './a.ts';\n"
          /\ files["./"] = "export * as Foo from './foo.ts';\n"
                           \o "export * as BarBaz from './bar-baz.ts';\n"
                           \o "export * as Qux from './qux/mod.ts';\n"

\* a sub-directory between two files, all three exported in that order
C6_Witness ==
    /\ status = "done"
    /\ "./" \in DOMAIN wrote
    /\ Len(wrote["./"]) = 3
    /\ wrote["./"][1].path = "a.ts"
    /\ wrote["./"][2].path = "qux/mod.ts"
    /\ wrote["./"][3].path = "secret.ts"
    /\ fs["./"].list[2].name = "qux"


\* the entry of the tree a path names, if it names one
EntriesAt(path) ==
    {e \in UNION {Range(fs[d].list) : d \in DOMAIN fs} :
        \E d \in DOMAIN fs : path = d \o e.name /\ e \in Range(fs[d].list)}

\* C8: ignored() is called for regular files only; every sub-directory that
\* is a candidate is entered whatever the rules above it hold, and it is
\* left out of the parent's aggregator only when its own barrel() collected
\* nothing.
C8_DirectoriesAlwaysEntered ==
    /\ \A k \in 1..Len(log) :
          log[k].op = "ignored" =>
              \A e \in EntriesAt(log[k].path) : e.kind = "file"
    /\ \A d \in DOMAIN returned :
          \A sub \in SubDirs(fs, d) :
              /\ sub \in DOMAIN returned
              /\ \E k \in 1..Len(log) : log[k] = Event("barrel", sub, TRUE)
              /\ (d \in DOMAIN wrote /\ ~Refers(d, sub)) =>
                    /\ returned[sub] = FALSE
                    /\ Expected(fs, sub) = <<>>

\* a directory that a rule of the root names was entered all the same
C8_Witness ==
    /\ status = "done"
    /\ "./" \in DOMAIN wrote
    /\ \E e \in Range(fs["./"].list) :
          /\ e.kind = "dir"
          /\ Test(Patterns(fs, "./"), e.name).ignored
          /\ ("./" \o e.name \o "/") \in DOMAIN returned
          /\ \E k \in 1..Len(log) : log[k].op = "ignored"

FsOps == {"readdir", "lstat", "writeFile"}

\* C9: a failed listing, stat or write is the last operation of the walk:
\* nothing is done, written or retried after it, what was written before
\* keeps its content, and the failure is the outcome of the root barrel().
C9_FailureAbortsWalk ==
    /\ \A k \in 1..Len(log) :
          (log[k].op \in FsOps /\ ~log[k].ok) =>
              /\ k = Len(log)
              /\ status = "failed"
              /\ stack = <<>>
    /\ status = "failed" =>
          /\ log # <<>>
          /\ log[Len(log)].op \in FsOps
          /\ ~log[Len(log)].ok
    /\ \A d \in DOMAIN wrote :
          files[d] = Concat([k \in 1..Len(wrote[d]) |->
                                Line(wrote[d][k].namespace, wrote[d][k].path)])
    /\ \A j, k \in 1..Len(log) :
          (j < k /\ log[j].op \in FsOps \cup {"readFile"}) =>
              ~(log[j].op = log[k].op /\ log[j].path = log[k].path)

\* a stat fails in the root after a sub-directory's aggregator was written
C9_Witness ==
    /\ status = "failed"
    /\ stack = <<>>
    /\ "./qux/" \in DOMAIN wrote
    /\ log[Len(log)].op = "lstat"
    /\ Dirname(log[Len(log)].path) = "./"

\* the tree with an empty rule file wherever none can be read
WithEmptyRuleFiles(tree) ==
    [d \in DOMAIN tree |->
        IF tree[d].rules.state = "ok" THEN tree[d]
        ELSE [tree[d] EXCEPT !.rules = RuleText("")]]

\* C10: a rule file that is missing or cannot be read never fails the walk,
\* which goes on to list the directory, and every aggregator written is the
\* one the tree with empty rule files in their place gets: the rules of
\* the directories above still apply.
C10_MissingRuleFileIsSoft ==
    /\ \A k \in 1..Len(log) :
          (log[k].op = "readFile" /\ ~log[k].ok) =>
              \/ (k = Len(log) /\ status = "running" /\ Top.pc = "readdir")
              \/ (k < Len(log) /\ log[k + 1].op = "readdir"
                               /\ log[k + 1].path = Dirname(log[k].path))
    /\ \A d \in DOMAIN wrote :
          wrote[d] = Expected(WithEmptyRuleFiles(fs), d)
    /\ \A d \in DOMAIN returned :
          returned[d] = (Expected(WithEmptyRuleFiles(fs), d) # <<>>)

\* a directory without a readable rule file is written, less the file a
\* rule of the root names
C10_Witness ==
    /\ status = "done"
    /\ \E d \in DOMAIN wrote :
          /\ d # "./"
          /\ fs[d].rules.state \in {"missing", "unreadable"}
          /\ \E e \in Range(fs[d].list) :
                e.kind = "file" /\ RuledBy(d, e.name) = {"./"}
          /\ \E k \in 1..Len(log) :
                log[k] = Event("readFile", d \o ".barrelignore", FALSE)


\* the entry of a directory that an include of its aggregator stands for
EntryOf(include) ==
    IF indexOf(include.path, "/") = 0 THEN include.path
    ELSE SubSeq(include.path, 1, indexOf(include.path, "/") - 1)

\* C11: an entry whose name starts with '.', the entry node_modules and the
\* entry mod.ts are never stat-ed, never tested against a rule, never
\* entered as a directory and never an entry of a written aggregator.
C11_SkippedNamesNeverCandidates ==
    /\ \A k \in 1..Len(log) :
          (\/ log[k].op \in {"lstat", "ignored"}
           \/ (log[k].op = "barrel" /\ log[k].path # "./"))
              => IsCandidate(Basename(log[k].path))
    /\ \A k \in 1..Len(stack) :
          /\ stack[k].pc \in {"lstat", "barrel"} =>
                IsCandidate(stack[k].names[stack[k].i])
          /\ k > 1 => IsCandidate(StripSlash(stack[k].folder))
          /\ \A n \in 1..Len(stack[k].includes) :
                IsCandidate(EntryOf(stack[k].includes[n]))
    /\ \A d \in DOMAIN wrote :
          \A n \in 1..Len(wrote[d]) : IsCandidate(EntryOf(wrote[d][n]))

\* a second run is over: the root listed its rule file, .git, a hidden
\* file, node_modules and its own aggregator, and was written
C11_Witness ==
    /\ run > 1
    /\ status = "done"
    /\ "./" \in DOMAIN wrote
    /\ {".barrelignore", ".git", ".env.ts", "node_modules", "mod.ts"}
          \subseteq Range(readdir("./"))
    /\ \E k \in 1..Len(log) : log[k].op = "ignored"


\* the directories the walk is to enter: the root and, below an entered
\* directory, every candidate sub-directory
RECURSIVE Reachable(_, _)
Reachable(tree, d) ==
    {d} \cup UNION {Reachable(tree, sub) : sub \in SubDirs(tree, d)}

\* how often barrel() was called on directory d in this run
Calls(d) == Cardinality({k \in 1..Len(log) : log[k] = Event("barrel", d, TRUE)})

\* the failed listings, stats and writes of this run
Failures == {k \in 1..Len(log) : log[k].op \in FsOps /\ ~log[k].ok}

Terminated == status \in {"done", "failed"}

\* what holds of the walk at every moment
WalkedOnce ==
    /\ \A k \in 1..Len(log) :
          log[k].op = "barrel" =>
              /\ log[k].path \in Reachable(fs, "./")
              /\ Calls(log[k].path) = 1
    /\ status = "done" =>
          /\ Failures = {}
          /\ \A d \in Reachable(fs, "./") :
                Calls(d) = 1 /\ d \in DOMAIN returned
    /\ status = "failed" =>
          /\ Failures = {Len(log)}
          /\ stack = <<>>
    /\ \A d \in DOMAIN fs :
          \A e \in Range(fs[d].list) :
              e.kind = "other" =>
                  /\ \A k \in 1..Len(log) :
                        log[k].path \in {d \o e.name, d \o e.name \o "/"}
                            => log[k].op = "lstat"
                  /\ d \in DOMAIN wrote => \A n \in 1..Len(wrote[d]) :
                                                EntryOf(wrote[d][n]) # e.name
                  /\ \A k \in 1..Len(stack) :
                        stack[k].fullPath = d =>
                            \A n \in 1..Len(stack[k].includes) :
                                EntryOf(stack[k].includes[n]) # e.name

\* C12: a started walk always ends, completed or failed; a completed walk
\* has run barrel() exactly once on the root and on every candidate
\* sub-directory below an entered directory, and on nothing else; a failed
\* walk holds one failure, its last operation; an entry that is neither a
\* directory nor a regular file is stat-ed and passed over: it is not
\* entered, not tested against the rules and not exported.
C12_WalkTerminates ==
    /\ []WalkedOnce
    /\ (status \in {"init", "running"}) ~> Terminated

\* a walk over a tree with a link and a sub-directory has completed
C12_Witness ==
    /\ status = "done"
    /\ Cardinality(Reachable(fs, "./")) > 1
    /\ \E d \in Reachable(fs, "./") :
          /\ \E e \in Range(fs[d].list) : e.kind = "other"
          /\ d \in DOMAIN wrote
    /\ \E k \in 1..Len(log) :
          log[k].op = "lstat" /\ Basename(log[k].path) = "lnk"


\* the pending barrel() calls that wait for a filesystem operation
InFlight ==
    {k \in 1..Len(stack) :
        stack[k].pc \in {"readFile", "readdir", "lstat", "writeFile"}}

\* where in the log the barrel() call logged at k returned, if it has
ReturnOf(k) ==
    {r \in (k + 1)..Len(log) : log[r] = Event("return", log[k].path, TRUE)}

\* C13: at most one filesystem operation is pending at any moment, that of
\* the innermost barrel(), every other pending barrel() waiting for the
\* call on the sub-directory it stands at; and from the call of barrel() on
\* a directory to its return everything done lies at or below that
\* directory, and nothing after: the next entry of the parent is stat-ed
\* only when the sub-directory's walk has finished.
C13_SequentialDepthFirst ==
    /\ Cardinality(InFlight) <= 1
    /\ InFlight \subseteq {Len(stack)}
    /\ \A k \in 1..(Len(stack) - 1) :
          /\ stack[k].pc = "barrel"
          /\ stack[k + 1].fullPath =
                stack[k].fullPath \o stack[k].names[stack[k].i] \o "/"
    /\ \A k \in 1..Len(log) :
          log[k].op = "barrel" =>
              LET d    == log[k].path
                  ends == ReturnOf(k)
              IN  /\ Cardinality(ends) <= 1
                  /\ (ends = {} /\ status = "running") =>
                        \E n \in 1..Len(stack) : stack[n].fullPath = d
                  /\ \A m \in (k + 1)..Len(log) :
                        IF \A r \in ends : m <= r
                        THEN startsWith(log[m].path, d)
                        ELSE ~startsWith(log[m].path, d)

\* the walk of a sub-directory wrote its aggregator and returned, and then
\* the next entry of the parent was stat-ed
C13_Witness ==
    \E k \in 1..Len(log) :
        /\ log[k].op = "barrel"
        /\ log[k].path # "./"
        /\ \E r \in ReturnOf(k) :
              /\ \E w \in k..r : log[w].op = "writeFile"
              /\ r < Len(log)
              /\ log[r + 1].op = "lstat"
              /\ Dirname(log[r + 1].path) = Dirname(log[k].path)


\* the rule set the rule file of directory d gives, if it gives one
RuleSetOf(d) ==
    IF fs[d].rules.state = "ok" /\ fs[d].rules.text # ""
    THEN [set |-> TRUE, lines |-> SplitLines(fs[d].rules.text)]
    ELSE NoRules

\* where in the log the rule file of directory d was read
ReadsOf(d) ==
    {k \in 1..Len(log) : log[k].op = "readFile"
                          /\ log[k].path = d \o ".barrelignore"}

\* what holds of the rule sets at every moment
RulesLoadedOnce ==
    /\ \A d \in DOMAIN fs : Cardinality(ReadsOf(d)) <= 1
    /\ \A m \in 1..Len(log) :
          log[m].op = "readdir" =>
              \E k \in ReadsOf(log[m].path) :
                  /\ k < m
                  /\ \E b \in 1..(k - 1) :
                        log[b] = Event("barrel", log[m].path, TRUE)
    /\ \A k \in 1..Len(stack) :
          /\ stack[k].pc = "readFile" =>
                stack[k].rules = NoRules /\ ReadsOf(stack[k].fullPath) = {}
          /\ stack[k].pc # "readFile" =>
                stack[k].rules = RuleSetOf(stack[k].fullPath)
          /\ k < Len(stack) => stack[k].pc # "readFile"

\* what holds of the rule sets in every step: the rule set of a pending
\* barrel() changes only by its own load, and not once it is set or once
\* the directory is being listed
RulesKept ==
    \A k \in 1..Len(stack) :
        k <= Len(stack') =>
            \/ stack'[k].rules = stack[k].rules
            \/ /\ k = Len(stack)
               /\ stack[k].pc = "readFile"
               /\ ~stack[k].rules.set

\* C14: in a walk the rule file of a directory is read at most once, in the
\* directory's barrel() and before the directory is listed; the rule set of
\* a context changes only by that load and never afterwards; whenever a
\* barrel() is pending below another, and so whenever ignored() cascades,
\* the contexts above hold the rule sets their rule files gave.
C14_RulesMemoized ==
    /\ []RulesLoadedOnce
    /\ [][RulesKept]_vars

\* ignored() was called in a sub-directory without a rule set of its own,
\* below a root whose rule set is loaded
C14_Witness ==
    /\ Len(stack) >= 2
    /\ stack[1].rules.set
    /\ ~stack[Len(stack)].rules.set
    /\ log[Len(log)].op = "ignored"
    /\ Dirname(log[Len(log)].path) = stack[Len(stack)].fullPath
    /\ Cardinality(ReadsOf("./")) = 1


\* C15: for arrays sorted in the same order and free of duplicates,
\* CompareSortedSets(a, b) is 0 when a and b hold the same elements, 1 when
\* a holds all of b and more, -1 when b holds all of a and more, and null
\* when each holds an element the other lacks.
C15_CompareSortedSets ==
    (status = "ret" /\ ret.fn = "CompareSortedSets") =>
        LET A == Range(call.a)
            B == Range(call.b)
        IN  ret.value = IF A = B THEN Num(0)
                        ELSE IF B \subseteq A THEN Num(1)
                        ELSE IF A \subseteq B THEN Num(-1)
                        ELSE Null


\* the directory an operation of the log works in
DirOf(event) ==
    IF event.op \in {"barrel", "readdir", "return"} THEN event.path
    ELSE Dirname(event.path)

\* whether directory a lies above directory d
Above(a, d) == a # d /\ startsWith(d, a)

\* C16: when the aggregator of a directory is written, barrel() has
\* returned for each of its sub-directories, the aggregator of each
\* sub-directory it names has been written in this run and is on disk,
\* and no directory above has been written; when the walk has failed in a
\* directory, no directory above it was written, or tried, in this run.
C16_PostOrderWrites ==
    /\ \A w \in 1..Len(log) :
          log[w].op = "writeFile" =>
              LET d == DirOf(log[w])
              IN  /\ \A sub \in SubDirs(fs, d) :
                        \E r \in 1..(w - 1) : log[r] = Event("return", sub, TRUE)
                  /\ log[w].ok =>
                        \A sub \in SubDirs(fs, d) :
                            Refers(d, sub) =>
                                \E v \in 1..(w - 1) :
                                    log[v] = Event("writeFile", sub \o "mod.ts", TRUE)
                  /\ \A v \in 1..(w - 1) :
                        log[v].op = "writeFile" => ~Above(DirOf(log[v]), d)
    /\ \A d \in DOMAIN wrote :
          \A sub \in SubDirs(fs, d) :
              Refers(d, sub) =>
                  /\ sub \in DOMAIN wrote
                  /\ sub \in DOMAIN files
                  /\ files[sub] # ""
    /\ status = "failed" =>
          \A a \in DOMAIN fs :
              Above(a, DirOf(log[Len(log)])) =>
                  /\ a \notin DOMAIN wrote
                  /\ \A k \in 1..Len(log) :
                        ~(log[k].op = "writeFile" /\ DirOf(log[k]) = a)

\* the write of a sub-directory's aggregator failed after the aggregator of
\* a directory below it had been written; the root was not written
C16_Witness ==
    /\ status = "failed"
    /\ log[Len(log)].op = "writeFile"
    /\ DirOf(log[Len(log)]) # "./"
    /\ \E d \in DOMAIN wrote : Above(DirOf(log[Len(log)]), d)
    /\ "./" \notin DOMAIN wrote

=============================================================================
